---------------------------- MODULE Spec2Model ----------------------------
(***************************************************************************)
(* A model of kasnder/xray-archiver, pipeline/util/util.go and the         *)
(* TrackerMapper command that sits beside it:                              *)
(*                                                                         *)
(*   - the slice helpers UniqAppend and Dedup            (SpecSet)         *)
(*   - the App artifact lifecycle OutDir/Unpack/Cleanup  (SpecApp)         *)
(*   - the outbound HTTP users: main's mapping loop and                    *)
(*     GetHostGeoIP/GetJSON                              (Spec)            *)
(*                                                                         *)
(* Each specification starts the variables of the other parts at an idle   *)
(* value and leaves them unchanged.                                        *)
(***************************************************************************)
EXTENDS Integers, Sequences, FiniteSets, TLC

VARIABLES
    \* ---- slice helpers
    a,          \* first argument slice
    b,          \* second argument slice (UniqAppend only)
    ret,        \* the slice the call returned
    fn,         \* which helper was called: "none", "UniqAppend", "Dedup"
    \* ---- App lifecycle
    apps,       \* the App objects: ID, Store, Region, Ver, Path, UnpackDir
    dirs,       \* the directories that exist on disk
    mtime,      \* directory -> the time os.Chtimes last gave it
    clock,      \* what time.Now() returns next
    alive,      \* FALSE once log.Fatal has ended the process
    lastCall,   \* the last method call and what it returned
    \* ---- outbound HTTP
    entry,      \* the entry point exercised: "mapper" (main) or "geoip"
    records,    \* db: the app_host records, each a list of hostnames
    pc,         \* "run", "done" (returned normally), "panic"
    i, j,       \* main's loop counters (0-based, as in the source)
    reqs,       \* per record: the hostnames whose iteration issued a request
    last,       \* the last iteration: host, response, log lines, tmCompany
    openBodies, \* response bodies obtained and not yet closed
    deferred,   \* main's pending deferred resp.Body.Close() calls
    addrs,      \* GetHostGeoIP: number of addresses net.LookupHost returned
    k,          \* GetHostGeoIP: loop counter
    geoRet      \* GetHostGeoIP: len(ret)

setVars == <<a, b, ret, fn>>
appVars == <<apps, dirs, mtime, clock, alive, lastCall>>
netVars == <<entry, records, pc, i, j, reqs, last, openBodies, deferred,
             addrs, k, geoRet>>
vars == <<setVars, appVars, netVars>>

\* ------------------------------------------------------------------ bounds
MaxLen == 3         \* longest argument slice of the slice helpers
MaxApps == 2        \* most app_host records db.GetAppHostIDs returns
MaxHosts == 3       \* most hostnames in one record
MaxAddrs == 2       \* most addresses net.LookupHost returns
MaxTime == 2        \* the clock stops advancing here

Elems == {"x", "y", "z"}
HostNames == {"a.com", "b.com"}

Range(s) == {s[n] : n \in 1..Len(s)}
NoDup(s) == \A m, n \in 1..Len(s) : s[m] = s[n] => m = n
SeqsUpTo(S, n) == UNION {[1..m -> S] : m \in 0..n}
Max(m, n) == IF m >= n THEN m ELSE n

\* =========================================================== slice helpers
\* Slices are sequences; Go's index n is the sequence's n+1.

\* UniqAppend's inner loop: add stays true unless some ae of a equals be.
RECURSIVE AddFlag(_, _, _)
AddFlag(xs, be, n) ==
    IF n >= Len(xs) THEN TRUE
    ELSE IF xs[n + 1] = be THEN FALSE
    ELSE AddFlag(xs, be, n + 1)

\* UniqAppend's second loop, over b from index n on.
RECURSIVE AppendLoop(_, _, _, _)
AppendLoop(xs, ys, acc, n) ==
    IF n >= Len(ys) THEN acc
    ELSE AppendLoop(xs, ys,
                    IF AddFlag(xs, ys[n + 1], 0) THEN Append(acc, ys[n + 1])
                    ELSE acc,
                    n + 1)

\* A UniqAppend that appends every element of b unchecked.
UniqAppendUnchecked(xs, ys) == xs \o ys

UniqAppend(xs, ys) == AppendLoop(xs, ys, xs, 0)

\* Dedup's inner loop: on a hit the last element overwrites a[j], the slice
\* shrinks by one, and j-- followed by the loop's j++ looks at index j again.
RECURSIVE DedupInner(_, _, _, _)
DedupInner(xs, length, ii, jj) ==
    IF jj > length THEN <<xs, length>>
    ELSE IF xs[ii + 1] = xs[jj + 1]
         THEN DedupInner(SubSeq([xs EXCEPT ![jj + 1] = xs[length + 1]], 1, length),
                         length - 1, ii, jj)
         ELSE DedupInner(xs, length, ii, jj + 1)

RECURSIVE DedupOuter(_, _, _)
DedupOuter(xs, length, ii) ==
    IF ii < length
    THEN LET r == DedupInner(xs, length, ii, ii + 1)
         IN  DedupOuter(r[1], r[2], ii + 1)
    ELSE xs

\* A Dedup whose inner loop lacks the j--: the element swapped in from the
\* end is never compared.
RECURSIVE DedupInnerNoRecheck(_, _, _, _)
DedupInnerNoRecheck(xs, length, ii, jj) ==
    IF jj > length THEN <<xs, length>>
    ELSE IF xs[ii + 1] = xs[jj + 1]
         THEN DedupInnerNoRecheck(
                  SubSeq([xs EXCEPT ![jj + 1] = xs[length + 1]], 1, length),
                  length - 1, ii, jj + 1)
         ELSE DedupInnerNoRecheck(xs, length, ii, jj + 1)

RECURSIVE DedupOuterNoRecheck(_, _, _)
DedupOuterNoRecheck(xs, length, ii) ==
    IF ii < length
    THEN LET r == DedupInnerNoRecheck(xs, length, ii, ii + 1)
         IN  DedupOuterNoRecheck(r[1], r[2], ii + 1)
    ELSE xs

DedupNoRecheck(xs) == DedupOuterNoRecheck(xs, Len(xs) - 1, 0)

Dedup(xs) == DedupOuter(xs, Len(xs) - 1, 0)

SetIdle == a = <<>> /\ b = <<>> /\ ret = <<>> /\ fn = "none"

SetInit ==
    /\ a \in SeqsUpTo(Elems, MaxLen)
    /\ b \in SeqsUpTo(Elems, MaxLen)
    /\ ret = <<>>
    /\ fn = "none"

CallUniqAppend ==
    /\ fn = "none"
    /\ ret' = UniqAppend(a, b)
    /\ fn' = "UniqAppend"
    /\ UNCHANGED <<a, b>>
    /\ UNCHANGED <<appVars, netVars>>

CallDedup ==
    /\ fn = "none"
    /\ ret' = Dedup(a)
    /\ fn' = "Dedup"
    /\ UNCHANGED <<a, b>>
    /\ UNCHANGED <<appVars, netVars>>


\* ============================================================ App lifecycle
\* A path is the sequence of its elements after the leading "/"; Go's empty
\* string is NoPath. Identity fields are plain names or empty: they hold no
\* separator and no dot segment, so path.Clean has only empty elements to drop.
NoPath == <<>>
AppIds == {1, 2}
FieldVals == {"", "p", "q"}
PkgPaths == {<<"/", "data", "x.apk">>}

\* ioutil.TempDir's names: the prefix followed by a random number.
TempNames(prefix) ==
    CASE prefix = "x.apk" -> {"x.apk101", "x.apk202"}

\* config.Load's defaults, cleaned.
CfgUnpackDir == <<"/", "tmp", "unpacked_apks">>
CfgAppDir == <<"/", "usr", "local", "var", "xray", "apps">>

\* id + ".apk"
ApkName(id) ==
    CASE id = ""  -> ".apk"
      [] id = "p" -> "p.apk"
      [] id = "q" -> "q.apk"

\* path.Join(base, names...): empty elements are ignored.
PathJoin(base, names) == base \o SelectSeq(names, LAMBDA c : c /= "")

\* path.Dir of a cleaned rooted path.
PathDir(p) == IF Len(p) <= 1 THEN p ELSE SubSeq(p, 1, Len(p) - 1)

\* path.Base of a cleaned rooted path.
PathBase(p) == p[Len(p)]

IsPrefix(p, q) == Len(p) <= Len(q) /\ SubSeq(q, 1, Len(p)) = p
Ancestors(p) == {SubSeq(p, 1, n) : n \in 1..Len(p)}

NewApp(id, store, region, ver) ==
    [ID |-> id, Store |-> store, Region |-> region, Ver |-> ver,
     Path |-> NoPath, UnpackDir |-> NoPath]

AppByPath(path) ==
    [ID |-> "", Store |-> "", Region |-> "", Ver |-> "",
     Path |-> path, UnpackDir |-> NoPath]

AppDir(app) ==
    IF app.Path /= NoPath THEN PathDir(app.Path)
    ELSE PathJoin(CfgAppDir, <<app.ID, app.Store, app.Region, app.Ver>>)

ApkPath(app) ==
    IF app.Path /= NoPath THEN app.Path
    ELSE PathJoin(AppDir(app), <<ApkName(app.ID)>>)

\* os.MkdirAll(p) that succeeded.
MkdirAll(ds, p) == ds \cup Ancestors(p)

\* os.RemoveAll with the error of os.Remove: a missing path is an error.
RemoveStrict(ds, p) ==
    [dirs |-> {d \in ds : ~IsPrefix(p, d)},
     err  |-> IF p \in ds THEN "nil" ELSE "ErrNotExist"]

\* os.RemoveAll(p): the tree under p is gone; a path that does not exist is
\* no error.
RemoveAll(ds, p) ==
    [dirs |-> {d \in ds : ~IsPrefix(p, d)}, err |-> "nil"]

\* The names ioutil.TempDir may hand out: any unused one ("" when it finds none).
TempChoices(ds, app) ==
    LET free == IF app.Path = NoPath THEN {}
                ELSE {t \in TempNames(PathBase(app.Path)) :
                        Append(CfgUnpackDir, t) \notin ds}
    IN  IF free = {} THEN {""} ELSE free

\* An OutDir that derives and creates the directory on every call.
OutDirRecompute(app, ds, mkOk, tmp) ==
    IF app.Path /= NoPath
    THEN IF mkOk /\ tmp /= "" /\ CfgUnpackDir \in ds
         THEN [app   |-> [app EXCEPT !.UnpackDir = Append(CfgUnpackDir, tmp)],
               dirs  |-> ds \cup {Append(CfgUnpackDir, tmp)},
               fatal |-> FALSE]
         ELSE [app |-> [app EXCEPT !.UnpackDir = NoPath], dirs |-> ds,
               fatal |-> TRUE]
    ELSE LET p == PathJoin(CfgUnpackDir,
                           <<app.ID, app.Store, app.Region, app.Ver>>)
         IN  [app   |-> [app EXCEPT !.UnpackDir = p],
              dirs  |-> IF mkOk THEN MkdirAll(ds, p) ELSE ds,
              fatal |-> ~mkOk]

\* app.OutDir(): mkOk says whether the directory can be created, tmp is the
\* name the temp-directory allocator picks. fatal: log.Fatal was reached.
OutDir(app, ds, mkOk, tmp) ==
    IF app.UnpackDir = NoPath
    THEN IF app.Path /= NoPath
         THEN IF mkOk /\ tmp /= "" /\ CfgUnpackDir \in ds
              THEN [app   |-> [app EXCEPT
                                 !.UnpackDir = Append(CfgUnpackDir, tmp)],
                    dirs  |-> ds \cup {Append(CfgUnpackDir, tmp)},
                    fatal |-> FALSE]
              ELSE [app |-> [app EXCEPT !.UnpackDir = NoPath], dirs |-> ds,
                    fatal |-> TRUE]
         ELSE LET p == PathJoin(CfgUnpackDir,
                                <<app.ID, app.Store, app.Region, app.Ver>>)
              IN  [app   |-> [app EXCEPT !.UnpackDir = p],
                   dirs  |-> IF mkOk THEN MkdirAll(ds, p) ELSE ds,
                   fatal |-> ~mkOk]
    ELSE [app |-> app, dirs |-> ds, fatal |-> FALSE]

NoTimes == [d \in {} |-> 0]

\* mtime restricted to the directories that still exist.
Surviving(mt, ds) == [d \in (DOMAIN mt) \cap ds |-> mt[d]]

Touch(mt, d, t) == [e \in (DOMAIN mt) \cup {d} |-> IF e = d THEN t ELSE mt[e]]

Call(n, op, err, path, created, existed, fsFault, now) ==
    [app |-> n, op |-> op, err |-> err, path |-> path, created |-> created,
     existed |-> existed, fsFault |-> fsFault, now |-> now]

\* lastCall: app and op name the call; err is what it returned ("fatal": it
\* did not return, log.Fatal ended the process); path is app.UnpackDir after
\* it; created: UnpackDir was unset when the call began; existed: the
\* directory was on disk when Cleanup reached RemoveAll; fsFault: a directory
\* creation or a timestamp update failed; now: the time Unpack read.
NoCall ==
    [app |-> 0, op |-> "none", err |-> "nil", path |-> NoPath,
     created |-> FALSE, existed |-> FALSE, fsFault |-> FALSE, now |-> 0]

AppIdle ==
    /\ apps = <<>> /\ dirs = {} /\ mtime = NoTimes /\ clock = 0
    /\ alive = TRUE /\ lastCall = NoCall

AppInit ==
    /\ \/ \E id, store, region, ver \in FieldVals :
              apps = [n \in AppIds |-> NewApp(id, store, region, ver)]
       \/ \E path \in PkgPaths : apps = [n \in AppIds |-> AppByPath(path)]
    /\ dirs = Ancestors(CfgUnpackDir)
    /\ mtime = NoTimes
    /\ clock = 0
    /\ alive = TRUE
    /\ lastCall = NoCall

\* What the file system and the disassembler do to one call, first failure
\* first: the directory OutDir wants cannot be created; os.Stat finds no apk;
\* os.Stat fails otherwise; MkdirAll of the parent fails; Chtimes fails;
\* apktool exits non-zero; nothing fails.
OutDirEnv == {"mkfail", "ok"}
UnpackEnv ==
    {"mkfail", "notexist", "denied", "parentfail", "chfail", "toolfail", "ok"}

\* A caller asks for the artifact directory.
CallOutDir(n) ==
    /\ alive
    /\ \E env \in OutDirEnv, tmp \in TempChoices(dirs, apps[n]) :
         LET r == OutDir(apps[n], dirs, env /= "mkfail", tmp)
         IN  /\ apps' = [apps EXCEPT ![n] = r.app]
             /\ dirs' = r.dirs
             /\ alive' = ~r.fatal
             /\ lastCall' = Call(n, "OutDir",
                                 IF r.fatal THEN "fatal" ELSE "nil",
                                 r.app.UnpackDir,
                                 apps[n].UnpackDir = NoPath, FALSE,
                                 r.fatal, 0)
    /\ UNCHANGED <<mtime, clock>>
    /\ UNCHANGED <<setVars, netVars>>

\* app.Unpack(). After OutDir: os.Stat(apkPath); MkdirAll and Chtimes on
\* path.Dir(outDir); apktool, which on exit status 0 has written the tree
\* under outDir.
CallUnpack(n) ==
    /\ alive
    /\ clock < MaxTime
    /\ \E env \in UnpackEnv, tmp \in TempChoices(dirs, apps[n]) :
         LET r      == OutDir(apps[n], dirs, env /= "mkfail", tmp)
             outDir == r.app.UnpackDir
             parent == PathDir(outDir)
             made   == apps[n].UnpackDir = NoPath
             now    == clock
         IN  /\ apps' = [apps EXCEPT ![n] = r.app]
             /\ alive' = ~r.fatal
             /\ IF r.fatal
                THEN /\ dirs' = r.dirs
                     /\ UNCHANGED <<mtime, clock>>
                     /\ lastCall' = Call(n, "Unpack", "fatal", outDir, made,
                                         FALSE, TRUE, 0)
                ELSE IF env = "notexist"
                THEN /\ dirs' = r.dirs
                     /\ UNCHANGED <<mtime, clock>>
                     /\ lastCall' = Call(n, "Unpack", "ErrNotExist", outDir,
                                         made, FALSE, FALSE, 0)
                ELSE IF env = "denied"
                THEN /\ dirs' = r.dirs
                     /\ UNCHANGED <<mtime, clock>>
                     /\ lastCall' = Call(n, "Unpack", "CouldntOpenApk", outDir,
                                         made, FALSE, FALSE, 0)
                ELSE IF env = "parentfail"
                THEN /\ dirs' = r.dirs
                     /\ UNCHANGED <<mtime, clock>>
                     /\ lastCall' = Call(n, "Unpack", "ErrPermission", outDir,
                                         made, FALSE, TRUE, 0)
                ELSE IF env = "chfail"
                THEN /\ dirs' = MkdirAll(r.dirs, parent)
                     /\ clock' = clock + 1
                     /\ UNCHANGED mtime
                     /\ lastCall' = Call(n, "Unpack", "ErrPermission", outDir,
                                         made, FALSE, TRUE, now)
                ELSE /\ clock' = clock + 1
                     /\ mtime' = Touch(mtime, parent, now)
                     /\ dirs' = IF env = "toolfail"
                                THEN MkdirAll(r.dirs, parent)
                                ELSE MkdirAll(r.dirs, outDir)
                     /\ lastCall' = Call(n, "Unpack",
                                         IF env = "toolfail"
                                         THEN "ApktoolFailed" ELSE "nil",
                                         outDir, made, FALSE, FALSE, now)
    /\ UNCHANGED <<setVars, netVars>>

\* app.Cleanup()
CallCleanup(n) ==
    /\ alive
    /\ \E env \in OutDirEnv, tmp \in TempChoices(dirs, apps[n]) :
         LET r  == OutDir(apps[n], dirs, env /= "mkfail", tmp)
             rm == RemoveAll(r.dirs, r.app.UnpackDir)
         IN  /\ apps' = [apps EXCEPT ![n] = r.app]
             /\ alive' = ~r.fatal
             /\ dirs' = IF r.fatal THEN r.dirs ELSE rm.dirs
             /\ mtime' = IF r.fatal THEN mtime ELSE Surviving(mtime, rm.dirs)
             /\ lastCall' = Call(n, "Cleanup",
                                 IF r.fatal THEN "fatal" ELSE rm.err,
                                 r.app.UnpackDir,
                                 apps[n].UnpackDir = NoPath,
                                 ~r.fatal /\ r.app.UnpackDir \in r.dirs,
                                 r.fatal, 0)
    /\ UNCHANGED clock
    /\ UNCHANGED <<setVars, netVars>>

\* ============================================================ outbound HTTP
\* What client.Do / client.Get hands back: a network-level failure (a nil
\* response and an error), or a response with a status and a body. A body
\* is a company mapping, some other JSON object, or not JSON at all.
StatusOK == 200

NetErr == [kind |-> "neterr", status |-> 0, body |-> "none"]
Responses ==
    {NetErr} \cup
    {[kind |-> "resp", status |-> st, body |-> bd] :
        st \in {StatusOK, 500},
        bd \in {"company", "object", "garbage"}}

\* json.NewDecoder(body).Decode(&tmCompany): the error and the value decoded.
Decode(body) ==
    CASE body = "company" -> [err |-> FALSE, company |-> "Acme"]
      [] body = "object"  -> [err |-> FALSE, company |-> ""]
      [] body = "garbage" -> [err |-> TRUE,  company |-> ""]

NoIter == [host |-> "", resp |-> NetErr, errs |-> {}, company |-> ""]

NetIdle ==
    /\ entry = "none" /\ records = <<>> /\ pc = "idle" /\ i = 0 /\ j = 0
    /\ reqs = <<>> /\ last = NoIter /\ openBodies = 0 /\ deferred = 0
    /\ addrs = 0 /\ k = 0 /\ geoRet = 0

NetInit ==
    /\ last = NoIter /\ openBodies = 0 /\ deferred = 0
    /\ i = 0 /\ j = 0 /\ addrs = 0 /\ k = 0 /\ geoRet = 0
    /\ \/ /\ entry = "mapper"
          /\ records \in SeqsUpTo(SeqsUpTo(HostNames, MaxHosts), MaxApps)
          /\ reqs = [n \in 1..Len(records) |-> <<>>]
          /\ pc = "run"
       \/ /\ entry = "geoip"
          /\ records = <<>>
          /\ reqs = <<>>
          /\ pc = "lookup"

\* ---- main
\* One pass of the inner loop for HostNames[j] of record i: the request is
\* formed and sent; a nil response is dereferenced at resp.Body and the
\* goroutine panics (the pending deferred closes run while it unwinds);
\* otherwise the body's close is deferred, the body decoded whatever the
\* status, and the loop goes on.
MapHost ==
    /\ entry = "mapper" /\ pc = "run"
    /\ i < Len(records)
    /\ j < Len(records[i + 1])
    /\ \E resp \in Responses :
         LET host == records[i + 1][j + 1]
             dec  == Decode(resp.body)
         IN  /\ reqs' = [reqs EXCEPT ![i + 1] = Append(@, host)]
             /\ IF resp.kind = "neterr"
                THEN /\ pc' = "panic"
                     /\ openBodies' = openBodies - deferred
                     /\ deferred' = 0
                     /\ last' = [host |-> host, resp |-> resp,
                                 errs |-> {"ClientError"}, company |-> ""]
                     /\ j' = j
                ELSE /\ pc' = pc
                     /\ openBodies' = openBodies + 1
                     /\ deferred' = deferred + 1
                     /\ last' = [host |-> host, resp |-> resp,
                                 errs |-> IF dec.err THEN {"DecodeError"}
                                          ELSE {},
                                 company |-> dec.company]
                     /\ j' = j + 1
    /\ UNCHANGED <<entry, records, i, addrs, k, geoRet>>
    /\ UNCHANGED <<setVars, appVars>>

\* The inner loop is over: the outer loop's i++ and the next record.
NextApp ==
    /\ entry = "mapper" /\ pc = "run"
    /\ i < Len(records)
    /\ j = Len(records[i + 1])
    /\ i' = i + 1
    /\ j' = 0
    /\ UNCHANGED <<entry, records, pc, reqs, last, openBodies, deferred,
                   addrs, k, geoRet>>
    /\ UNCHANGED <<setVars, appVars>>

\* The outer loop is over: main returns and its deferred closes run.
MainReturn ==
    /\ entry = "mapper" /\ pc = "run"
    /\ i = Len(records)
    /\ pc' = "done"
    /\ openBodies' = openBodies - deferred
    /\ deferred' = 0
    /\ UNCHANGED <<entry, records, i, j, reqs, last, addrs, k, geoRet>>
    /\ UNCHANGED <<setVars, appVars>>

\* ---- GetHostGeoIP / GetJSON
\* GetJSON(url, target): the error it returns and the bodies it leaves open.
\* The deferred close is registered after the status check.
GetJSON(resp) ==
    IF resp.kind = "neterr" THEN [err |-> "neterr", open |-> 0]
    ELSE IF resp.status /= StatusOK THEN [err |-> "status", open |-> 1]
    ELSE IF Decode(resp.body).err THEN [err |-> "decode", open |-> 0]
    ELSE [err |-> "nil", open |-> 0]

\* net.LookupHost(host): an error, or at least one address.
LookupHost ==
    /\ entry = "geoip" /\ pc = "lookup"
    /\ \/ /\ pc' = "done"
          /\ addrs' = 0
       \/ /\ pc' = "loop"
          /\ addrs' \in 1..MaxAddrs
    /\ UNCHANGED <<entry, records, i, j, reqs, last, openBodies, deferred,
                   k, geoRet>>
    /\ UNCHANGED <<setVars, appVars>>

\* One pass of GetHostGeoIP's loop: GetJSON for address k; its result is
\* appended when GetJSON returned no error.
GeoLookup ==
    /\ entry = "geoip" /\ pc = "loop"
    /\ k < addrs
    /\ \E resp \in Responses :
         LET r == GetJSON(resp)
         IN  /\ openBodies' = openBodies + r.open
             /\ geoRet' = IF r.err = "nil" THEN geoRet + 1 ELSE geoRet
             /\ last' = [host |-> "", resp |-> resp,
                         errs |-> IF r.err = "nil" THEN {} ELSE {r.err},
                         company |-> ""]
    /\ k' = k + 1
    /\ UNCHANGED <<entry, records, pc, i, j, reqs, deferred, addrs>>
    /\ UNCHANGED <<setVars, appVars>>

GeoReturn ==
    /\ entry = "geoip" /\ pc = "loop"
    /\ k = addrs
    /\ pc' = "done"
    /\ UNCHANGED <<entry, records, i, j, reqs, last, openBodies, deferred,
                   addrs, k, geoRet>>
    /\ UNCHANGED <<setVars, appVars>>

\* =========================================================== specifications
\* The outbound HTTP users.
Init == NetInit /\ SetIdle /\ AppIdle
Next ==
    \/ MapHost \/ NextApp \/ MainReturn
    \/ LookupHost \/ GeoLookup \/ GeoReturn
Spec == Init /\ [][Next]_vars

\* The slice helpers, applied to every pair of slices up to MaxLen.
InitSet == SetInit /\ AppIdle /\ NetIdle
NextSet == CallUniqAppend \/ CallDedup
SpecSet == InitSet /\ [][NextSet]_vars

\* Two Apps built by the same constructor call, used in any order.
InitApp == AppInit /\ SetIdle /\ NetIdle
NextAppCall == \E n \in AppIds : CallOutDir(n) \/ CallUnpack(n) \/ CallCleanup(n)
SpecApp == InitApp /\ [][NextAppCall]_vars

\* ==================================================================== claims

\* C1: whatever the records and whatever each request's outcome, main makes
\* an attribution attempt for every hostname of every record and then ends
\* normally; no host's failure stops the hosts and apps after it.
C1_FullPassAlways ==
    entry = "mapper" =>
        /\ pc /= "panic"
        /\ pc = "done" => \A n \in 1..Len(records) : reqs[n] = records[n]

\* C2: for a record whose hostname list holds duplicates, one request is
\* issued per distinct hostname: the hosts requested for a finished record
\* are the record's hostnames, each once.
C2_OneRequestPerDistinctHost ==
    entry = "mapper" =>
        \A n \in 1..Len(records) :
            (n <= i \/ pc = "done") =>
                /\ NoDup(reqs[n])
                /\ Range(reqs[n]) = Range(records[n])

\* C3: a response with a non-2xx status is a failure: an error is logged for
\* that host, no company mapping is taken from the response, and the loop
\* goes on.
C3_NonOKStatusIsFailure ==
    (entry = "mapper" /\ last.resp.kind = "resp"
        /\ last.resp.status \notin 200..299) =>
        /\ last.errs /= {}
        /\ last.company = ""
        /\ pc /= "panic"

\* C4, as stated: UniqAppend(a, b) holds exactly the union of the elements
\* of a and b, no element twice, and max(|a|,|b|) <= |ret| <= |a|+|b|.
C4_UnionNoDuplicates ==
    fn = "UniqAppend" =>
        /\ Range(ret) = Range(a) \cup Range(b)
        /\ NoDup(ret)
        /\ Len(ret) >= Max(Len(a), Len(b))
        /\ Len(ret) <= Len(a) + Len(b)

\* C4, amended: UniqAppend(a, b) holds exactly the union of the elements of
\* a and b, begins with a unchanged, and |a| <= |ret| <= |a|+|b|; when
\* neither a nor b repeats an element, no element occurs twice in the result
\* and |ret| >= max(|a|,|b|).
C4_UnionOfDuplicateFree ==
    fn = "UniqAppend" =>
        /\ Range(ret) = Range(a) \cup Range(b)
        /\ Len(ret) >= Len(a)
        /\ Len(ret) <= Len(a) + Len(b)
        /\ SubSeq(ret, 1, Len(a)) = a
        /\ (NoDup(a) /\ NoDup(b)) =>
               /\ NoDup(ret)
               /\ Len(ret) >= Max(Len(a), Len(b))

\* C4's case: two duplicate-free slices that share an element.
C4_Witness ==
    /\ fn = "UniqAppend"
    /\ a = <<"x", "y">>
    /\ b = <<"y", "z">>
    /\ ret = <<"x", "y", "z">>

\* C5: Dedup(a) has no element twice, the same set of elements as a, at most
\* |a| elements, and Dedup of it is itself.
C5_DedupSetAndIdempotent ==
    fn = "Dedup" =>
        /\ NoDup(ret)
        /\ Range(ret) = Range(a)
        /\ Len(ret) <= Len(a)
        /\ Dedup(ret) = ret

\* C5's case: a slice whose first element recurs at the end, so that the
\* element swapped in is itself a duplicate.
C5_Witness ==
    /\ fn = "Dedup"
    /\ a = <<"x", "y", "x">>
    /\ ret = <<"x", "y">>

IdentityDir(app) ==
    CfgUnpackDir
        \o (IF app.ID = "" THEN <<>> ELSE <<app.ID>>)
        \o (IF app.Store = "" THEN <<>> ELSE <<app.Store>>)
        \o (IF app.Region = "" THEN <<>> ELSE <<app.Region>>)
        \o (IF app.Ver = "" THEN <<>> ELSE <<app.Ver>>)

IdentityApk(app) ==
    CfgAppDir
        \o (IF app.ID = "" THEN <<>> ELSE <<app.ID>>)
        \o (IF app.Store = "" THEN <<>> ELSE <<app.Store>>)
        \o (IF app.Region = "" THEN <<>> ELSE <<app.Region>>)
        \o (IF app.Ver = "" THEN <<>> ELSE <<app.Ver>>)
        \o <<ApkName(app.ID)>>

\* C7: once set, UnpackDir never changes, whatever is called (Cleanup too),
\* and a call that returns hands back UnpackDir; for an App built from
\* identity fields it is unpack-root/id/store/region/version, the same for
\* both Apps of equal identity, as is ApkPath.
C7_ArtifactDirFixed ==
    /\ [][\A n \in DOMAIN apps :
             apps[n].UnpackDir /= NoPath =>
                 apps'[n].UnpackDir = apps[n].UnpackDir]_vars
    /\ [](\A n \in DOMAIN apps :
             /\ (lastCall.app = n /\ lastCall.err /= "fatal") =>
                    lastCall.path = apps[n].UnpackDir
             /\ apps[n].Path = NoPath =>
                    /\ apps[n].UnpackDir \in {NoPath, IdentityDir(apps[n])}
                    /\ ApkPath(apps[n]) = IdentityApk(apps[n])
                    /\ \A m \in DOMAIN apps :
                           /\ ApkPath(apps[m]) = ApkPath(apps[n])
                           /\ apps[m].UnpackDir /= NoPath
                                  /\ apps[n].UnpackDir /= NoPath
                              => apps[m].UnpackDir = apps[n].UnpackDir)

\* C7's case: OutDir called after Cleanup returns the path of the first call
\* although the directory is gone.
C7_Witness ==
    /\ lastCall.op = "OutDir"
    /\ ~lastCall.created
    /\ lastCall.path = <<"/", "tmp", "unpacked_apks", "p", "q", "q", "p">>
    /\ lastCall.path \notin dirs
    /\ apps[1].UnpackDir = apps[2].UnpackDir

\* C8: when a function that obtained response bodies has returned, none of
\* them is open: GetJSON after each call, main once it has ended.
C8_BodiesClosed ==
    /\ entry = "geoip" => openBodies = 0
    /\ (entry = "mapper" /\ pc \in {"done", "panic"}) => openBodies = 0

\* C9: after a successful Unpack the artifact directory itself carries the
\* time of the call.
C9_ArtifactDirTouched ==
    (lastCall.op = "Unpack" /\ lastCall.err = "nil") =>
        /\ lastCall.path \in DOMAIN mtime
        /\ mtime[lastCall.path] = lastCall.now

\* C10: a directory-creation or timestamp-update failure during Unpack makes
\* Unpack return an error, and the process keeps running.
C10_FsFailureNotFatal ==
    (lastCall.op = "Unpack" /\ lastCall.fsFault) =>
        /\ alive
        /\ lastCall.err = "ErrPermission"
=============================================================================
